---------------------------- MODULE Spec2Model ----------------------------
(***************************************************************************)
(* Task API (Backend/main.py): a FastAPI service over one SQLite table,    *)
(* "tasks", reached through SQLAlchemy sessions.                           *)
(*                                                                         *)
(* The table is a set of rows.  Every handler is an operator from the      *)
(* table, the request and the clock to the new table and the response.     *)
(* Spec and SpecList run the handlers one request at a time; SpecConc      *)
(* runs two sessions whose db.get, db.commit and db.refresh interleave.    *)
(***************************************************************************)
EXTENDS Integers, Sequences, FiniteSets, TLC

VARIABLES
    tasks,      \* the rows of table "tasks"
    now,        \* what datetime.utcnow() returns
    req,        \* the request being answered (NoReq between requests)
    resp,       \* its response
    old,        \* the table as it was when the handler started
    issued,     \* every id the table has assigned so far
    birth,      \* id -> created_at given at creation, for the stored rows
    sess        \* SpecConc: the state of each concurrent session

vars == <<tasks, now, req, resp, old, issued, birth, sess>>

----------------------------------------------------------------------------
(* Bounds of the model *)

MaxId == 2          \* ids the table may assign: 1..MaxId
MaxClock == 1       \* the clock runs from 0 to MaxClock

----------------------------------------------------------------------------
(* Values *)

None == <<>>
Some(v) == <<v>>
Val(o) == o[1]

Max(S) == CHOOSE x \in S : \A y \in S : y <= x
Min(S) == CHOOSE x \in S : \A y \in S : x <= y
Min2(a, b) == IF a <= b THEN a ELSE b
Max2(a, b) == IF a >= b THEN a ELSE b

(* A JSON body field: absent, null, or a value. *)
Absent == [present |-> FALSE, val |-> None]
Null == [present |-> TRUE, val |-> None]
Given(v) == [present |-> TRUE, val |-> Some(v)]

(* A string is its leading characters followed by `pad` filler characters, *)
(* so that a 200 or a 10,000 character string is one small value.          *)
Filler == "~"
Str(text, pad) == [text |-> text, pad |-> pad]
StrLen(s) == Len(s.text) + s.pad
Chars(s) == s.text \o [i \in 1..s.pad |-> Filler]

TitleMinLen == 1
TitleMaxLen == 200
DescMaxLen == 10000
LimitMin == 1
LimitMax == 100

Pending == "pending"
InProgress == "in_progress"
Completed == "completed"
TaskStatus == {Pending, InProgress, Completed}

(* A datetime: its wall-clock reading t and its tzinfo (None: naive, or    *)
(* Some(utc offset)).                                                      *)
DateTime(t, tz) == [t |-> t, tz |-> tz]

(* The instant a datetime denotes, a naive one read as UTC (the reading    *)
(* utcnow() gives created_at and updated_at).                              *)
Instant(d) == IF d.tz = None THEN d.t ELSE d.t - Val(d.tz)

(* datetime.utcnow() is naive. *)
Utcnow(clock) == DateTime(clock, None)

(* Column(DateTime) on SQLite: the value is written as the text            *)
(* "YYYY-MM-DD HH:MM:SS.ffffff" of its wall-clock fields and read back as  *)
(* a naive datetime; tzinfo is not stored.                                 *)
ColumnDateTime(d) == DateTime(d.t, None)

----------------------------------------------------------------------------
(* Pydantic schemas *)

FieldBody(title, description, status, due_date) ==
    [title |-> title, description |-> description,
     status |-> status, due_date |-> due_date]

NoBody == FieldBody(Absent, Absent, Absent, Absent)

(* Mutant: the upper bound on the title length is not checked. *)
TitleOk_NoMax(s) == TitleMinLen <= StrLen(s)

TitleOk(s) == TitleMinLen <= StrLen(s) /\ StrLen(s) <= TitleMaxLen
DescOk(s) == StrLen(s) <= DescMaxLen

(* TaskCreate: title and due_date required, description optional,          *)
(* status defaults to pending and is not nullable.                         *)
TaskCreateValid(body) ==
    /\ body.title.present /\ body.title.val # None /\ TitleOk(Val(body.title.val))
    /\ body.description.val = None \/ DescOk(Val(body.description.val))
    /\ body.due_date.present /\ body.due_date.val # None
    /\ body.status.present =>
          body.status.val # None /\ Val(body.status.val) \in TaskStatus

TaskCreate(body) ==
    [title |-> Val(body.title.val),
     description |-> body.description.val,
     due_date |-> Val(body.due_date.val),
     status |-> IF body.status.present THEN Val(body.status.val) ELSE Pending]

(* TaskUpdate: every field Optional with default None, so an absent field  *)
(* and a null field both parse to None.                                    *)
TaskUpdateValid(body) ==
    /\ body.title.val = None \/ TitleOk(Val(body.title.val))
    /\ body.description.val = None \/ DescOk(Val(body.description.val))
    /\ body.status.val = None \/ Val(body.status.val) \in TaskStatus

TaskUpdate(body) ==
    [title |-> body.title.val,
     description |-> body.description.val,
     status |-> body.status.val,
     due_date |-> body.due_date.val]

(* TaskOut.model_validate(task): the row's seven attributes. *)
TaskOut(task) == task

----------------------------------------------------------------------------
(* The table *)

TaskDB(id, title, description, status, due_date, created_at, updated_at) ==
    [id |-> id, title |-> title, description |-> description,
     status |-> status, due_date |-> ColumnDateTime(due_date),
     created_at |-> ColumnDateTime(created_at),
     updated_at |-> ColumnDateTime(updated_at)]

Ids(store) == {t.id : t \in store}

(* db.get(TaskDB, task_id): the row with that primary key, or None. *)
DbGet(store, task_id) ==
    IF task_id \in Ids(store)
    THEN Some(CHOOSE t \in store : t.id = task_id)
    ELSE None

(* id INTEGER PRIMARY KEY without AUTOINCREMENT: SQLite gives a new row    *)
(* the largest id in the table plus one, and 1 in an empty table.          *)
NextId(store) == IF store = {} THEN 1 ELSE Max(Ids(store)) + 1

----------------------------------------------------------------------------
(* Requests and responses *)

ListArgs(st, q, id, limit, offset, sort, order) ==
    [status |-> st, q |-> q, id |-> id, limit |-> limit, offset |-> offset,
     sort |-> sort, order |-> order]

DefaultLimit == 20
NoArgs == ListArgs({}, None, None, DefaultLimit, 0, "due_date", "asc")

Req(op, id, body, args) == [op |-> op, id |-> id, body |-> body, args |-> args]
NoReq == Req("none", 0, NoBody, NoArgs)

EmptyPage == [total |-> 0, items |-> <<>>]
Resp(code, task, page) == [code |-> code, task |-> task, page |-> page]
NoResp == Resp(0, None, EmptyPage)

HTTP_200_OK == 200
HTTP_201_CREATED == 201
HTTP_204_NO_CONTENT == 204
HTTP_404_NOT_FOUND == 404
HTTP_422_UNPROCESSABLE == 422
HTTP_500_INTERNAL == 500

Result(store, response) == [tasks |-> store, resp |-> response]

----------------------------------------------------------------------------
(* POST /tasks *)

create_task(store, body, clock) ==
    IF ~TaskCreateValid(body)
    THEN Result(store, Resp(HTTP_422_UNPROCESSABLE, None, EmptyPage))
    ELSE LET payload == TaskCreate(body)
             task == TaskDB(NextId(store), payload.title, payload.description,
                            payload.status, payload.due_date,
                            Utcnow(clock), Utcnow(clock))
         IN  Result(store \cup {task},
                    Resp(HTTP_201_CREATED, Some(TaskOut(task)), EmptyPage))

----------------------------------------------------------------------------
(* GET /tasks/{task_id} *)

get_task(store, task_id) ==
    LET task == DbGet(store, task_id)
    IN  IF task = None
        THEN Result(store, Resp(HTTP_404_NOT_FOUND, None, EmptyPage))
        ELSE Result(store, Resp(HTTP_200_OK, Some(TaskOut(Val(task))), EmptyPage))

----------------------------------------------------------------------------
(* PATCH /tasks/{task_id} *)

(* Mutant: the update also stamps created_at. *)
ApplyUpdate_StampsCreated(task, payload, clock) ==
    [task EXCEPT
        !.title = IF payload.title # None THEN Val(payload.title) ELSE @,
        !.description = IF payload.description # None
                        THEN payload.description ELSE @,
        !.status = IF payload.status # None THEN Val(payload.status) ELSE @,
        !.due_date = IF payload.due_date # None
                     THEN ColumnDateTime(Val(payload.due_date)) ELSE @,
        !.created_at = ColumnDateTime(Utcnow(clock)),
        !.updated_at = ColumnDateTime(Utcnow(clock))]

(* The assignments of update_task: a field of the payload that is not None *)
(* is written to the row; updated_at is always written.                    *)
ApplyUpdate(task, payload, clock) ==
    [task EXCEPT
        !.title = IF payload.title # None THEN Val(payload.title) ELSE @,
        !.description = IF payload.description # None
                        THEN payload.description ELSE @,
        !.status = IF payload.status # None THEN Val(payload.status) ELSE @,
        !.due_date = IF payload.due_date # None
                     THEN ColumnDateTime(Val(payload.due_date)) ELSE @,
        !.updated_at = ColumnDateTime(Utcnow(clock))]

update_task(store, task_id, body, clock) ==
    IF ~TaskUpdateValid(body)
    THEN Result(store, Resp(HTTP_422_UNPROCESSABLE, None, EmptyPage))
    ELSE LET task == DbGet(store, task_id)
         IN  IF task = None
             THEN Result(store, Resp(HTTP_404_NOT_FOUND, None, EmptyPage))
             ELSE LET row == ApplyUpdate(Val(task), TaskUpdate(body), clock)
                  IN  Result((store \ {Val(task)}) \cup {row},
                             Resp(HTTP_200_OK, Some(TaskOut(row)), EmptyPage))

----------------------------------------------------------------------------
(* DELETE /tasks/{task_id} *)

(* Mutant: deleting an id that is not stored answers 204 as well. *)
delete_task_Idempotent(store, task_id) ==
    Result({t \in store : t.id # task_id},
           Resp(HTTP_204_NO_CONTENT, None, EmptyPage))

delete_task(store, task_id) ==
    LET task == DbGet(store, task_id)
    IN  IF task = None
        THEN Result(store, Resp(HTTP_404_NOT_FOUND, None, EmptyPage))
        ELSE Result(store \ {Val(task)}, Resp(HTTP_204_NO_CONTENT, None, EmptyPage))

----------------------------------------------------------------------------
(* GET /tasks *)

SortColumns == {"id", "due_date", "created_at", "updated_at"}
Orders == {"asc", "desc"}

ListArgsValid(args) ==
    /\ args.id = None \/ Val(args.id) >= 1
    /\ LimitMin <= args.limit /\ args.limit <= LimitMax
    /\ args.offset >= 0
    /\ args.sort \in SortColumns
    /\ args.order \in Orders

IsSpace(c) == c = " "

RECURSIVE LStrip(_)
LStrip(s) == IF s # <<>> /\ IsSpace(Head(s)) THEN LStrip(Tail(s)) ELSE s

RECURSIVE RStrip(_)
RStrip(s) ==
    IF s # <<>> /\ IsSpace(s[Len(s)]) THEN RStrip(SubSeq(s, 1, Len(s) - 1)) ELSE s

(* q.strip() *)
Strip(s) == RStrip(LStrip(s))

Lower(c) == CASE c = "A" -> "a" [] c = "B" -> "b" [] OTHER -> c

(* SQLite LIKE, as ilike() renders it: % matches any run of characters,    *)
(* _ any one character, letters match without regard to case.  LikeAt is   *)
(* the set of positions of s that the pattern p from position i on can     *)
(* have reached, given that it stood at one of the positions `at`.         *)
RECURSIVE LikeAt(_, _, _, _)
LikeAt(p, i, s, at) ==
    IF i > Len(p) THEN at
    ELSE IF p[i] = "%"
         THEN LikeAt(p, i + 1, s,
                     IF at = {} THEN {} ELSE Min(at)..(Len(s) + 1))
         ELSE LikeAt(p, i + 1, s,
                     {j + 1 : j \in {k \in at : /\ k <= Len(s)
                                               /\ \/ p[i] = "_"
                                                  \/ Lower(p[i]) = Lower(s[k])}})

ILike(s, pattern) == (Len(s) + 1) \in LikeAt(pattern, 1, s, {1})

StatusMatch(task, args) == args.status = {} \/ task.status \in args.status
(* Mutant: the id filter is not applied. *)
IdMatch_Ignored(task, args) == TRUE

IdMatch(task, args) == args.id = None \/ task.id = Val(args.id)
TitleMatch(task, args) ==
    \/ args.q = None
    \/ Val(args.q) = <<>>
    \/ Strip(Val(args.q)) = <<>>
    \/ ILike(Chars(task.title), <<"%">> \o Strip(Val(args.q)) \o <<"%">>)

(* The WHERE clauses list_tasks adds to select(TaskDB). *)
Selected(store, args) ==
    {t \in store : StatusMatch(t, args) /\ IdMatch(t, args) /\ TitleMatch(t, args)}

SortKey(task, col) ==
    CASE col = "id" -> task.id
      [] col = "due_date" -> task.due_date.t
      [] col = "created_at" -> task.created_at.t
      [] col = "updated_at" -> task.updated_at.t

(* ORDER BY sort_col ASC|DESC: every arrangement of the rows in which the  *)
(* keys run in that order; SQL leaves the order of equal keys open.        *)
Orderings(rows, col, order) ==
    LET n == Cardinality(rows)
    IN  {f \in [1..n -> rows] :
            /\ \A i, j \in 1..n : i # j => f[i] # f[j]
            /\ \A i, j \in 1..n : i < j =>
                  IF order = "asc"
                  THEN SortKey(f[i], col) <= SortKey(f[j], col)
                  ELSE SortKey(f[i], col) >= SortKey(f[j], col)}

(* The orders the database may return the selected rows in; a query that  *)
(* fails validation is never run.                                          *)
QueryOrderings(store, args) ==
    IF ListArgsValid(args)
    THEN Orderings(Selected(store, args), args.sort, args.order)
    ELSE {<<>>}

(* Mutant: the offset is not applied. *)
LimitOffset_NoOffset(rows, limit, offset) ==
    SubSeq(rows, 1, Min2(Len(rows), limit))

(* stmt.limit(limit).offset(offset) *)
LimitOffset(rows, limit, offset) ==
    SubSeq(rows, offset + 1, Min2(Len(rows), offset + limit))

(* select(func.count()).select_from(stmt.subquery()) *)
CountRows(rows) == Len(rows)

(* list_tasks, with `ordered` the order the database returns the rows in. *)
list_tasks(store, args, ordered) ==
    IF ~ListArgsValid(args)
    THEN Result(store, Resp(HTTP_422_UNPROCESSABLE, None, EmptyPage))
    ELSE LET total == CountRows(ordered)
             items == LimitOffset(ordered, args.limit, args.offset)
         IN  Result(store,
                    Resp(HTTP_200_OK, None,
                         [total |-> total,
                          items |-> [i \in DOMAIN items |-> TaskOut(items[i])]]))

----------------------------------------------------------------------------
(* The requests the model sends *)

T_a == Str(<<"a">>, 0)
T_Ab200 == Str(<<"A", "b">>, TitleMaxLen - 2)
T_empty == Str(<<>>, 0)
T_Ab201 == Str(<<"A", "b">>, TitleMaxLen - 1)
D_max == Str(<<"d">>, DescMaxLen - 1)
D_over == Str(<<"d">>, DescMaxLen)
Due_naive == DateTime(1, None)
Due_offset == DateTime(3, Some(1))

BaseCreate == FieldBody(Given(T_a), Absent, Absent, Given(Due_naive))

CreateBodies ==
    {FieldBody(Given(t), d, s, Given(due)) :
        t \in {T_a, T_Ab200}, d \in {Absent, Given(D_max)},
        s \in {Absent, Given(Completed)}, due \in {Due_naive, Due_offset}}
    \cup {[BaseCreate EXCEPT !.title = t] :
            t \in {Absent, Null, Given(T_empty), Given(T_Ab201)}}
    \cup {[BaseCreate EXCEPT !.description = d] : d \in {Null, Given(D_over)}}
    \cup {[BaseCreate EXCEPT !.status = st] :
            st \in {Null, Given(InProgress), Given("archived")}}
    \cup {[BaseCreate EXCEPT !.due_date = d] : d \in {Absent, Null}}

UpdateBodies ==
    {FieldBody(t, d, s, due) :
        t \in {Absent, Given(T_Ab200)}, d \in {Absent, Null, Given(D_max)},
        s \in {Absent, Given(Completed)}, due \in {Absent, Given(Due_offset)}}
    \cup {[NoBody EXCEPT !.title = t] :
            t \in {Null, Given(T_a), Given(T_empty), Given(T_Ab201)}}
    \cup {[NoBody EXCEPT !.description = d] : d \in {Given(D_over)}}
    \cup {[NoBody EXCEPT !.status = st] :
            st \in {Null, Given(Pending), Given("archived")}}
    \cup {[NoBody EXCEPT !.due_date = d] : d \in {Null, Given(Due_naive)}}

PathIds == 1..(MaxId + 1)

FewListArgs ==
    {ListArgs({}, None, id, limit, 0, "due_date", "asc") :
        id \in {None, Some(1)}, limit \in {LimitMin, DefaultLimit}}

----------------------------------------------------------------------------
(* One request at a time *)

Idle == req = NoReq

(* The bookkeeping every handler shares: the table and the response it     *)
(* produced, the request it answered, the table it started from, and the   *)
(* ids and creation times of the rows it added or dropped.                 *)
Handle(request, result) ==
    LET r == result
        added == Ids(r.tasks) \ Ids(tasks)
    IN  /\ tasks' = r.tasks
        /\ resp' = r.resp
        /\ req' = request
        /\ old' = tasks
        /\ issued' = issued \cup added
        /\ birth' = [i \in Ids(r.tasks) |->
                       IF i \in added
                       THEN (CHOOSE t \in r.tasks : t.id = i).created_at
                       ELSE birth[i]]
        /\ UNCHANGED <<now, sess>>

CreateTask(bodies, maxid) ==
    /\ Idle
    /\ \E body \in bodies :
        /\ TaskCreateValid(body) => NextId(tasks) <= maxid
        /\ Handle(Req("create", 0, body, NoArgs), create_task(tasks, body, now))

GetTask ==
    /\ Idle
    /\ \E id \in PathIds :
        Handle(Req("get", id, NoBody, NoArgs), get_task(tasks, id))

UpdateTask(bodies) ==
    /\ Idle
    /\ \E id \in PathIds, body \in bodies :
        Handle(Req("update", id, body, NoArgs), update_task(tasks, id, body, now))

DeleteTask ==
    /\ Idle
    /\ \E id \in PathIds :
        Handle(Req("delete", id, NoBody, NoArgs), delete_task(tasks, id))

ListTasks(argsets) ==
    /\ Idle
    /\ \E args \in argsets :
        \E ordered \in QueryOrderings(tasks, args) :
            Handle(Req("list", 0, NoBody, args), list_tasks(tasks, args, ordered))

(* The response is sent and get_db closes the session. *)
Respond ==
    /\ ~Idle
    /\ req' = NoReq
    /\ resp' = NoResp
    /\ old' = {}
    /\ UNCHANGED <<tasks, now, issued, birth, sess>>

(* Time passes between requests. *)
Tick ==
    /\ Idle
    /\ now < MaxClock
    /\ now' = now + 1
    /\ UNCHANGED <<tasks, req, resp, old, issued, birth, sess>>

NoSess == <<>>

Init ==
    /\ tasks = {}
    /\ now = 0
    /\ req = NoReq
    /\ resp = NoResp
    /\ old = {}
    /\ issued = {}
    /\ birth = <<>>
    /\ sess = NoSess

Next ==
    \/ CreateTask(CreateBodies, MaxId)
    \/ GetTask
    \/ UpdateTask(UpdateBodies)
    \/ DeleteTask
    \/ ListTasks(FewListArgs)
    \/ Respond
    \/ Tick

Spec == Init /\ [][Next]_vars

----------------------------------------------------------------------------
(* Claims about one request at a time (Spec) *)

Row(store, id) == CHOOSE t \in store : t.id = id

Answered(op) == req.op = op

(* C1: after a successful update_task every supplied field holds the       *)
(* supplied value, every field not supplied holds its previous value, id   *)
(* and created_at are unchanged, updated_at is the current time, and no    *)
(* other row is changed.  A null is a value only for description, the one  *)
(* nullable column; due dates are compared as instants.                    *)
C1_UpdateSetsSuppliedFields ==
    (Answered("update") /\ TaskUpdateValid(req.body) /\ req.id \in Ids(old)) =>
        /\ resp.code = HTTP_200_OK
        /\ req.id \in Ids(tasks)
        /\ LET before == Row(old, req.id)
               after == Row(tasks, req.id)
               body == req.body
           IN  /\ body.title.val # None => after.title = Val(body.title.val)
               /\ ~body.title.present => after.title = before.title
               /\ body.description.present =>
                     after.description = body.description.val
               /\ ~body.description.present =>
                     after.description = before.description
               /\ body.status.val # None => after.status = Val(body.status.val)
               /\ ~body.status.present => after.status = before.status
               /\ body.due_date.val # None =>
                     Instant(after.due_date) = Instant(Val(body.due_date.val))
               /\ ~body.due_date.present => after.due_date = before.due_date
               /\ after.id = before.id
               /\ after.created_at = before.created_at
               /\ after.updated_at = Utcnow(now)
               /\ resp.task = Some(after)
               /\ tasks \ {after} = old \ {before}

(* C2: create_task with valid fields returns 201 and adds exactly one row  *)
(* whose title, description and due_date equal the input, whose status is  *)
(* the supplied one or pending, and whose created_at equals updated_at;    *)
(* get_task on the returned id returns 200 with that record; the rows      *)
(* stored before are unchanged.  Due dates are compared as instants.       *)
C2_CreateStoresInput ==
    (Answered("create") /\ TaskCreateValid(req.body)) =>
        /\ resp.code = HTTP_201_CREATED
        /\ resp.task # None
        /\ LET task == Val(resp.task)
               body == req.body
           IN  /\ task \notin old
               /\ tasks = old \cup {task}
               /\ task.title = Val(body.title.val)
               /\ task.description = body.description.val
               /\ Instant(task.due_date) = Instant(Val(body.due_date.val))
               /\ task.status = (IF body.status.present
                                 THEN Val(body.status.val) ELSE Pending)
               /\ task.created_at = task.updated_at
               /\ get_task(tasks, task.id).resp = Resp(HTTP_200_OK, Some(task), EmptyPage)

(* C4: get_task, update_task and delete_task called with an id that is not *)
(* in the table return 404 and leave the table unchanged.                  *)
C4_MissingIdIs404 ==
    (/\ req.op \in {"get", "update", "delete"}
     /\ Answered("update") => TaskUpdateValid(req.body)
     /\ req.id \notin Ids(old)) =>
        /\ resp.code = HTTP_404_NOT_FOUND
        /\ resp.task = None
        /\ tasks = old

C4_Witness ==
    /\ Answered("update")
    /\ TaskUpdateValid(req.body)
    /\ req.body.title.val # None
    /\ old # {}
    /\ req.id \notin Ids(old)
    /\ resp.code = HTTP_404_NOT_FOUND

(* C5: delete_task on an existing id returns 204 and removes exactly that  *)
(* row for good: from then on the id is in no list_tasks result and        *)
(* get_task, update_task and delete_task on it return 404; every other row *)
(* is left unchanged.                                                      *)
C5_DeleteRemoves ==
    (Answered("delete") /\ req.id \in Ids(old)) =>
        /\ resp.code = HTTP_204_NO_CONTENT
        /\ tasks = old \ {Row(old, req.id)}
        /\ get_task(tasks, req.id).resp.code = HTTP_404_NOT_FOUND
        /\ update_task(tasks, req.id, NoBody, now).resp.code = HTTP_404_NOT_FOUND
        /\ delete_task(tasks, req.id).resp.code = HTTP_404_NOT_FOUND
        /\ \A args \in FewListArgs :
             \A ordered \in QueryOrderings(tasks, args) :
                \A i \in DOMAIN list_tasks(tasks, args, ordered).resp.page.items :
                    list_tasks(tasks, args, ordered).resp.page.items[i].id # req.id

C5_DeletedIdStaysGone ==
    \A id \in issued : id \notin Ids(tasks) => id \notin Ids(tasks')

C5_DeleteIsPermanent == [](C5_DeleteRemoves) /\ [][C5_DeletedIdStaysGone]_vars

(* C7: create_task with an empty or over-long title, or an over-long       *)
(* description, fails with 422 and leaves the table unchanged; every       *)
(* stored title has 1 to 200 characters.                                   *)
C7_TitleLength ==
    /\ (/\ Answered("create")
        /\ \/ /\ req.body.title.val # None
              /\ \/ StrLen(Val(req.body.title.val)) = 0
                 \/ StrLen(Val(req.body.title.val)) > TitleMaxLen
           \/ /\ req.body.description.val # None
              /\ StrLen(Val(req.body.description.val)) > DescMaxLen) =>
            (resp.code = HTTP_422_UNPROCESSABLE /\ tasks = old)
    /\ \A t \in tasks : StrLen(t.title) >= 1 /\ StrLen(t.title) <= TitleMaxLen

C7_Witness ==
    /\ Answered("create")
    /\ req.body.title.val # None
    /\ StrLen(Val(req.body.title.val)) > TitleMaxLen
    /\ resp.code = HTTP_422_UNPROCESSABLE
    /\ \E t \in tasks : StrLen(t.title) = TitleMaxLen

(* C8: every stored row has updated_at >= created_at, the created_at and   *)
(* the id it was given at creation, and one of the three statuses.         *)
C8_RowInvariants ==
    /\ \A t \in tasks :
          /\ t.updated_at.t >= t.created_at.t
          /\ t.status \in TaskStatus
          /\ t.id \in DOMAIN birth
          /\ t.created_at = birth[t.id]
          /\ t.id \in issued
    /\ Answered("create") => Ids(old) \subseteq Ids(tasks)
    /\ Answered("delete") => Ids(tasks) \subseteq Ids(old)
    /\ req.op \in {"get", "update", "list"} => Ids(tasks) = Ids(old)
    /\ \A t \in tasks : \A u \in old : t.id = u.id => t.created_at = u.created_at

C8_Witness ==
    /\ Answered("update")
    /\ resp.code = HTTP_200_OK
    /\ req.body.status.val # None
    /\ Val(resp.task).updated_at.t > Val(resp.task).created_at.t
    /\ Val(resp.task).status # Row(old, req.id).status

(* C10: create_task never assigns an id that was assigned before, the ids  *)
(* of deleted rows included.                                               *)
C10_NewIdIsFresh ==
    (req'.op = "create" /\ resp'.code = HTTP_201_CREATED) =>
        Val(resp'.task).id \notin issued

C10_IdsNeverReused == [][C10_NewIdIsFresh]_vars

----------------------------------------------------------------------------
(* Listing (SpecList): a few kinds of row, many queries *)

MaxListId == 3      \* ids the table may assign under SpecList

T_Ab == Str(<<"A", "b">>, 1)
T_Ba == Str(<<"B", "_", "a">>, 0)

ListSeedBodies ==
    {FieldBody(Given(T_a), Absent, Absent, Given(Due_naive)),
     FieldBody(Given(T_Ab), Absent, Given(Completed), Given(Due_offset)),
     FieldBody(Given(T_Ba), Absent, Given(InProgress), Given(Due_naive))}

ManyListArgs ==
    {ListArgs(st, q, id, limit, offset, so[1], so[2]) :
        st \in {{}, {Pending}, {InProgress, Completed}},
        q \in {None, Some(<<"a">>), Some(<<" ", "B", " ">>)},
        id \in {None, Some(1), Some(MaxListId)},
        limit \in {LimitMin, 2, LimitMax},
        offset \in {0, 1, MaxListId},
        so \in {<<"due_date", "asc">>, <<"id", "desc">>, <<"updated_at", "asc">>}}
    \cup {[NoArgs EXCEPT !.q = q] :
            q \in {Some(<<>>), Some(<<" ", " ">>), Some(<<"_">>), Some(<<"%">>),
                   Some(<<"b", "_">>), Some(<<"a", "b">>)}}
    \cup {[NoArgs EXCEPT !.id = id] : id \in {Some(0), Some(2)}}
    \cup {[NoArgs EXCEPT !.limit = l] : l \in {LimitMin - 1, LimitMax + 1}}
    \cup {[NoArgs EXCEPT !.offset = -1],
          [NoArgs EXCEPT !.sort = "title"],
          [NoArgs EXCEPT !.order = "up"],
          [NoArgs EXCEPT !.sort = "created_at", !.order = "desc"]}

NextList ==
    \/ CreateTask(ListSeedBodies, MaxListId)
    \/ DeleteTask
    \/ ListTasks(ManyListArgs)
    \/ Respond
    \/ Tick

SpecList == Init /\ [][NextList]_vars

IdFilterOnly(args) ==
    /\ ListArgsValid(args)
    /\ args.id # None
    /\ args.status = {}
    /\ args.q = None

C6_IdFilterAnyPage ==
    (Answered("list") /\ IdFilterOnly(req.args)) =>
        IF Val(req.args.id) \in Ids(old)
        THEN /\ resp.page.total = 1
             /\ resp.page.items = <<Row(old, Val(req.args.id))>>
        ELSE /\ resp.page.total = 0
             /\ resp.page.items = <<>>

(* C6, amended: the same for the first page (offset = 0); at a larger      *)
(* offset total is still 1 and the page is empty.                          *)
C6_IdFilterFirstPage ==
    (Answered("list") /\ IdFilterOnly(req.args)) =>
        IF Val(req.args.id) \in Ids(old)
        THEN /\ resp.page.total = 1
             /\ resp.page.items =
                  (IF req.args.offset = 0
                   THEN <<Row(old, Val(req.args.id))>> ELSE <<>>)
        ELSE /\ resp.page.total = 0
             /\ resp.page.items = <<>>

C6_Witness ==
    /\ Answered("list")
    /\ IdFilterOnly(req.args)
    /\ req.args.offset = 0
    /\ Val(req.args.id) = 1
    /\ Cardinality(old) = 2
    /\ 1 \in Ids(old)
    /\ resp.page.total = 1
    /\ Len(resp.page.items) = 1

----------------------------------------------------------------------------
(* Concurrent requests (SpecConc).  FastAPI runs each handler in a worker  *)
(* thread with a session of its own; SQLite runs one statement or one      *)
(* commit at a time.  A handler's db.get, db.commit and db.refresh are     *)
(* separate steps, and other sessions may commit between them.             *)

NProcs == 2         \* concurrent requests
Procs == 1..NProcs

Session(pc, op, id, body, loaded, pending, stamp, response) ==
    [pc |-> pc, op |-> op, id |-> id, body |-> body, loaded |-> loaded,
     pending |-> pending, stamp |-> stamp, resp |-> response]

NewSession == Session("idle", "none", 0, NoBody, None, None, 0, NoResp)

ConcBodies ==
    {NoBody,
     [NoBody EXCEPT !.title = Given(T_Ab200)],
     [NoBody EXCEPT !.status = Given(Completed)],
     [NoBody EXCEPT !.title = Given(T_empty)]}

ConcStores == {{}, create_task({}, BaseCreate, 0).tasks}

(* The request reaches the handler; a body that fails validation is        *)
(* answered 422 before the handler runs.                                   *)
Receive(p) ==
    /\ sess[p].pc = "idle"
    /\ \E op \in {"create", "get", "update", "delete"}, id \in 1..MaxId,
          body \in ConcBodies \cup {BaseCreate} :
        /\ op \in {"get", "delete"} => body = NoBody
        /\ op = "create" => body = BaseCreate /\ id = 1
        /\ op = "update" => body \in ConcBodies
        /\ sess' = [sess EXCEPT ![p] =
              IF op = "update" /\ ~TaskUpdateValid(body)
              THEN Session("done", op, id, body, None, None, 0,
                           Resp(HTTP_422_UNPROCESSABLE, None, EmptyPage))
              ELSE Session(IF op = "create" THEN "commit" ELSE "get",
                           op, id, body, None, None, now, NoResp)]
    /\ UNCHANGED <<tasks, now, req, resp, old, issued, birth>>

(* task = db.get(TaskDB, task_id), the 404 when it is None, and the        *)
(* handler's work on the loaded instance up to db.commit().                *)
SessionGet(p) ==
    /\ sess[p].pc = "get"
    /\ LET s == sess[p]
           task == DbGet(tasks, s.id)
       IN  sess' = [sess EXCEPT ![p] =
              IF task = None
              THEN [s EXCEPT !.pc = "done",
                             !.resp = Resp(HTTP_404_NOT_FOUND, None, EmptyPage)]
              ELSE IF s.op = "get"
              THEN [s EXCEPT !.pc = "done",
                             !.resp = Resp(HTTP_200_OK, Some(TaskOut(Val(task))), EmptyPage)]
              ELSE IF s.op = "update"
              THEN [s EXCEPT !.pc = "commit", !.loaded = task, !.stamp = now,
                             !.pending = Some(ApplyUpdate(Val(task), TaskUpdate(s.body), now))]
              ELSE [s EXCEPT !.pc = "commit", !.loaded = task]]
    /\ UNCHANGED <<tasks, now, req, resp, old, issued, birth>>

(* The UPDATE a flush emits sets the columns whose value differs from the  *)
(* loaded one, on the row that is in the table now.                        *)
FlushUpdate(current, loaded, pending) ==
    [f \in DOMAIN current |->
        IF pending[f] # loaded[f] THEN pending[f] ELSE current[f]]

Dirty(loaded, pending) == \E f \in DOMAIN loaded : pending[f] # loaded[f]

(* db.commit() of create_task: INSERT. *)
CommitCreate(p) ==
    /\ sess[p].pc = "commit"
    /\ sess[p].op = "create"
    /\ NextId(tasks) <= MaxId
    /\ LET s == sess[p]
           r == create_task(tasks, s.body, s.stamp)
       IN  /\ tasks' = r.tasks
           /\ sess' = [sess EXCEPT ![p] =
                 [s EXCEPT !.pc = "refresh", !.id = NextId(tasks)]]
    /\ UNCHANGED <<now, req, resp, old, issued, birth>>

(* db.commit() of update_task: UPDATE ... WHERE id = ?.  When the row is   *)
(* gone the UPDATE matches no row and the flush raises StaleDataError,     *)
(* which the client sees as 500.                                           *)
CommitUpdate(p) ==
    /\ sess[p].pc = "commit"
    /\ sess[p].op = "update"
    /\ LET s == sess[p]
           current == DbGet(tasks, s.id)
       IN  IF ~Dirty(Val(s.loaded), Val(s.pending))
           THEN /\ sess' = [sess EXCEPT ![p] = [s EXCEPT !.pc = "refresh"]]
                /\ UNCHANGED tasks
           ELSE IF current = None
           THEN /\ sess' = [sess EXCEPT ![p] =
                      [s EXCEPT !.pc = "done",
                                !.resp = Resp(HTTP_500_INTERNAL, None, EmptyPage)]]
                /\ UNCHANGED tasks
           ELSE /\ tasks' = (tasks \ {Val(current)}) \cup
                               {FlushUpdate(Val(current), Val(s.loaded), Val(s.pending))}
                /\ sess' = [sess EXCEPT ![p] = [s EXCEPT !.pc = "refresh"]]
    /\ UNCHANGED <<now, req, resp, old, issued, birth>>

(* db.delete(task); db.commit(): DELETE ... WHERE id = ?.  A DELETE that   *)
(* matches no row only warns, and the handler returns 204.                 *)
CommitDelete(p) ==
    /\ sess[p].pc = "commit"
    /\ sess[p].op = "delete"
    /\ LET s == sess[p]
       IN  /\ tasks' = {t \in tasks : t.id # s.id}
           /\ sess' = [sess EXCEPT ![p] =
                 [s EXCEPT !.pc = "done",
                           !.resp = Resp(HTTP_204_NO_CONTENT, None, EmptyPage)]]
    /\ UNCHANGED <<now, req, resp, old, issued, birth>>

(* db.refresh(task) and the return: the row is read again; when it is gone *)
(* refresh raises InvalidRequestError, which the client sees as 500.       *)
Refresh(p) ==
    /\ sess[p].pc = "refresh"
    /\ LET s == sess[p]
           task == DbGet(tasks, s.id)
       IN  sess' = [sess EXCEPT ![p] =
              [s EXCEPT !.pc = "done",
                        !.resp = IF task = None
                                 THEN Resp(HTTP_500_INTERNAL, None, EmptyPage)
                                 ELSE Resp(IF s.op = "create" THEN HTTP_201_CREATED
                                           ELSE HTTP_200_OK,
                                           Some(TaskOut(Val(task))), EmptyPage)]]
    /\ UNCHANGED <<tasks, now, req, resp, old, issued, birth>>

ClockTick ==
    /\ now < MaxClock
    /\ now' = now + 1
    /\ UNCHANGED <<tasks, req, resp, old, issued, birth, sess>>

InitConc ==
    /\ tasks \in ConcStores
    /\ now = 0
    /\ req = NoReq
    /\ resp = NoResp
    /\ old = tasks
    /\ issued = Ids(tasks)
    /\ birth = [i \in Ids(tasks) |-> (CHOOSE t \in tasks : t.id = i).created_at]
    /\ sess = [p \in Procs |-> NewSession]

NextConc ==
    \/ \E p \in Procs : Receive(p)
    \/ \E p \in Procs : SessionGet(p)
    \/ \E p \in Procs : CommitCreate(p)
    \/ \E p \in Procs : CommitUpdate(p)
    \/ \E p \in Procs : CommitDelete(p)
    \/ \E p \in Procs : Refresh(p)
    \/ ClockTick

SpecConc == InitConc /\ [][NextConc]_vars

(* The same requests served one after another, in the order `order`, each  *)
(* with the clock reading its handler took. *)
Serve(store, s) ==
    CASE s.op = "create" -> create_task(store, s.body, s.stamp)
      [] s.op = "get" -> get_task(store, s.id)
      [] s.op = "update" -> update_task(store, s.id, s.body, s.stamp)
      [] s.op = "delete" -> delete_task(store, s.id)

RECURSIVE SerialRun(_, _, _)
SerialRun(store, order, answers) ==
    IF order = <<>> THEN [tasks |-> store, answers |-> answers]
    ELSE LET r == Serve(store, sess[Head(order)])
         IN  SerialRun(r.tasks, Tail(order),
                       [answers EXCEPT ![Head(order)] = r.resp])

SerialOrders == {o \in [Procs -> Procs] : \A p, q \in Procs : p # q => o[p] # o[q]}

AllDone == \A p \in Procs : sess[p].pc = "done"

(* C9: whatever the interleaving, the final table and every response are   *)
(* those of the requests served in some serial order; no request ends in   *)
(* an internal error.                                                      *)
C9_Serializable ==
    AllDone =>
        /\ \A p \in Procs : sess[p].resp.code # HTTP_500_INTERNAL
        /\ \E o \in SerialOrders :
              LET serial == SerialRun(old, o, [p \in Procs |-> NoResp])
              IN  /\ serial.tasks = tasks
                  /\ \A p \in Procs : serial.answers[p] = sess[p].resp

=============================================================================
